---- MODULE Spec2Model ----
(***************************************************************************)
(* Model of the driverlog trip planner (src/trips): the HOS compliance     *)
(* plan generator, the route calculator, the location interpolator, the    *)
(* trip status requests and the duty-log validation.                       *)
(*                                                                         *)
(* Numbers.  The code computes in floats; the model computes in exact      *)
(* rationals.  Hours are counted in ticks of half an hour (the finest      *)
(* grain the code names, MANDATORY_BREAK_HOURS = 0.5).  A distance along   *)
(* the route is kept multiplied by total_drive_hours (in ticks), so that   *)
(* (daily_drive_hours / total_drive_hours) * total_distance_miles is the   *)
(* integer daily_drive_hours * total_distance_miles.                       *)
(***************************************************************************)
EXTENDS Integers, Sequences, FiniteSets, TLC

VARIABLES
    \* ---- ELDComplianceService.generate_compliance_plan
    pc,                     \* "start" | "loop" | "returned" | "raised"
    trip,                   \* the Trip row handed to the service
    days_required,
    day,                    \* loop index of `for day in range(days_required)`
    remaining_drive_hours,
    distance_covered,       \* scaled by total_drive_hours
    rest_stops,
    eld_logs,
    plan,                   \* the returned dict, NoPlan before the return
    \* ---- ELDComplianceService._interpolate_location, called on its own
    ip_len,                 \* len(route_coordinates)
    ip_progress,            \* numerator of progress, over ProgressDen
    ip_result,              \* the dict returned by the last call
    ip_prev,                \* progress and result of the call before it
    \* ---- RouteCalculatorService.calculate_route
    rt_pc,                  \* "start" | "returned" | "raised"
    rt_in,                  \* the arguments and what the provider will do
    rt_result,
    \* ---- TripViewSet.start_trip / end_trip / cancel_trip on one trip
    status,
    trip_start_time,
    trip_end_time,
    now,                    \* timezone.now()
    response,               \* the last request and its HTTP status
    status_seen,            \* history: every status the trip has had
    \* ---- ELDLog.save
    store,                  \* the rows of the ELDLog table
    next_pk,
    save_result             \* kind and outcome of the last save

planVars == <<pc, trip, days_required, day, remaining_drive_hours,
              distance_covered, rest_stops, eld_logs, plan>>

interpVars == <<ip_len, ip_progress, ip_result, ip_prev>>

routeVars == <<rt_pc, rt_in, rt_result>>

tripVars == <<status, trip_start_time, trip_end_time, now, response,
              status_seen>>

logVars == <<store, next_pk, save_result>>

vars == <<planVars, interpVars, routeVars, tripVars, logVars>>

None == [none |-> TRUE]

----------------------------------------------------------------------------
(* Units and bounds *)

TicksPerHour == 2

Hours(h) == h * TicksPerHour

\* datetime.time(h, m) as ticks since midnight
Time(h, m) == h * TicksPerHour + (m * TicksPerHour) \div 60

MaxDriveTicks == 45

DriveHourValues == 0 .. MaxDriveTicks

\* current_cycle_used_hours: 0, 59.5, 65, 68, 69.5, 70 and 75 hours
CycleUsedValues == {0, Hours(59) + 1, Hours(65), Hours(68), Hours(69) + 1,
                    Hours(70), Hours(75)}

DistanceValues == {0, 660, 2100}

RouteLenValues == {0, 3}

NoPlan == None

----------------------------------------------------------------------------
(* Helpers *)

Min2(a, b) == IF a <= b THEN a ELSE b

Max2(a, b) == IF a >= b THEN a ELSE b

\* math.ceil(a / b) for b # 0, of either sign
Ceil(a, b) == IF b > 0 THEN -((-a) \div b) ELSE -(a \div (-b))

RECURSIVE SumDuration(_)
\* sum of duration_hours over a sequence of entries
SumDuration(logs) ==
    IF logs = <<>> THEN 0
    ELSE Head(logs).duration_hours + SumDuration(Tail(logs))

----------------------------------------------------------------------------
(* ELDComplianceService *)

MAX_DRIVING_HOURS_DAILY == Hours(11)

MAX_ON_DUTY_HOURS_DAILY == Hours(14)

MAX_CYCLE_HOURS == Hours(70)

MANDATORY_BREAK_HOURS == TicksPerHour \div 2

MIN_OFF_DUTY_HOURS == Hours(10)

\* variant: the `progress >= 1.0` branch left out
InterpolateIndexNoClampHigh(len, num, den) ==
    IF len = 0 \/ num <= 0 THEN 0
    ELSE (num * (len - 1)) \div den

\* _interpolate_location(route_coordinates, progress), progress = num / den
\* with den > 0; the polyline is given by its length, the point by its
\* 0-based index ("origin" is the literal (0, 0) of the empty polyline).
InterpolateIndex(len, num, den) ==
    IF len = 0 \/ num <= 0 THEN 0
    ELSE IF num >= den THEN len - 1
    ELSE (num * (len - 1)) \div den

InterpolateLocation(len, num, den) ==
    [ source  |-> IF len = 0 THEN "origin" ELSE "point",
      index   |-> InterpolateIndex(len, num, den),
      address |-> IF len = 0 \/ num <= 0 \/ num >= den
                  THEN <<"Route location">>
                  ELSE <<"Mile marker", (num * 1000) \div den>> ]

\* available_drive_hours of generate_compliance_plan
AvailableDriveHours(cycle) ==
    Min2(MAX_DRIVING_HOURS_DAILY, MAX_CYCLE_HOURS - cycle)

\* variant: the day count taken from the plain 11-hour daily cap
DaysRequiredDailyCap(total, cycle) == Ceil(total, MAX_DRIVING_HOURS_DAILY)

DaysRequired(total, cycle) == Ceil(total, AvailableDriveHours(cycle))

\* variant: MAX_DRIVING_HOURS_DAILY left out of the min()
DailyDriveHoursUncapped(d, remaining, cycle) ==
    IF d = 0
    THEN Min2(remaining, Max2(0, MAX_CYCLE_HOURS - cycle))
    ELSE remaining

DailyDriveHours(d, remaining, cycle) ==
    IF d = 0
    THEN Min2(remaining,
              Min2(MAX_DRIVING_HOURS_DAILY, Max2(0, MAX_CYCLE_HOURS - cycle)))
    ELSE Min2(remaining, MAX_DRIVING_HOURS_DAILY)

Log(log_date, duty_status, start_time, duration_hours, remarks) ==
    [ log_date |-> log_date, duty_status |-> duty_status,
      start_time |-> start_time, duration_hours |-> duration_hours,
      remarks |-> remarks ]

\* variant: the break split left out, one Driving segment whatever its length
GenerateDailyLogsNoSplit(log_date, drive_hours, is_first_day) ==
    << IF is_first_day
       THEN Log(log_date, "on_duty", Time(6, 0), Hours(1),
                "Pre-trip inspection and trip planning")
       ELSE Log(log_date, "off_duty", Time(0, 0), Hours(10),
                "Required 10-hour off-duty period"),
       Log(log_date, "driving", Time(IF is_first_day THEN 7 ELSE 10, 0),
           drive_hours, "Driving to destination") >>

\* _generate_daily_logs(log_date, drive_hours, is_first_day)
GenerateDailyLogs(log_date, drive_hours, is_first_day) ==
    LET first ==
            IF is_first_day
            THEN Log(log_date, "on_duty", Time(6, 0), Hours(1),
                     "Pre-trip inspection and trip planning")
            ELSE Log(log_date, "off_duty", Time(0, 0), Hours(10),
                     "Required 10-hour off-duty period")
        start_hour == IF is_first_day THEN 7 ELSE 10
    IN  IF drive_hours <= Hours(8)
        THEN << first,
                Log(log_date, "driving", Time(start_hour, 0), drive_hours,
                    "Driving to destination") >>
        ELSE << first,
                Log(log_date, "driving", Time(start_hour, 0), Hours(8),
                    "Driving (first 8 hours)"),
                Log(log_date, "off_duty", Time(start_hour + 8, 0),
                    TicksPerHour \div 2, "Mandatory 30-minute break"),
                Log(log_date, "driving", Time(start_hour + 8, 30),
                    drive_hours - Hours(8), "Driving (after break)") >>

Stop(stop_type, location, d, at, duration_hours, distance, is_mandatory, why) ==
    [ stop_type |-> stop_type, location |-> location,
      scheduled_arrival |-> [date |-> d, time |-> at],
      duration_hours |-> duration_hours,
      distance_from_start_miles |-> distance,
      is_mandatory |-> is_mandatory, hos_reason |-> why ]

InitPlanVars ==
    /\ pc = "start"
    /\ trip \in [ estimated_drive_time_hours : DriveHourValues,
                  current_cycle_used_hours   : CycleUsedValues,
                  total_distance_miles       : DistanceValues,
                  route_len                  : RouteLenValues ]
    /\ days_required = 0
    /\ day = 0
    /\ remaining_drive_hours = 0
    /\ distance_covered = 0
    /\ rest_stops = <<>>
    /\ eld_logs = <<>>
    /\ plan = NoPlan

\* lines 115-133: the day count and the loop's initial values; the division
\* raises ZeroDivisionError when available_drive_hours is 0
PlanBegin ==
    /\ pc = "start"
    /\ LET total == trip.estimated_drive_time_hours
           cycle == trip.current_cycle_used_hours
       IN  IF AvailableDriveHours(cycle) = 0
           THEN /\ pc' = "raised"
                /\ UNCHANGED <<days_required, remaining_drive_hours>>
           ELSE /\ pc' = "loop"
                /\ days_required' = DaysRequired(total, cycle)
                /\ remaining_drive_hours' = total
    /\ day' = 0
    /\ distance_covered' = 0
    /\ rest_stops' = <<>>
    /\ eld_logs' = <<>>
    /\ UNCHANGED <<trip, plan>>
    /\ UNCHANGED <<interpVars, routeVars, tripVars, logVars>>

\* lines 135-206: one iteration of the per-day loop.  The progress handed to
\* _interpolate_location is a distance divided by trip.total_distance_miles,
\* which raises ZeroDivisionError when a stop is due and that distance is 0.
PlanDay ==
    /\ pc = "loop"
    /\ day < days_required
    /\ LET total    == trip.estimated_drive_time_hours
           miles    == trip.total_distance_miles
           len      == trip.route_len
           daily    == DailyDriveHours(day, remaining_drive_hours,
                                       trip.current_cycle_used_hours)
           needBreak == daily > Hours(8)
           breakAt  == distance_covered + Hours(8) * miles
           needFuel == /\ distance_covered > 0
                       /\ distance_covered % (1000 * total) < 200 * total
           remAfter == remaining_drive_hours - daily
           covAfter == distance_covered + daily * miles
           needRest == remAfter > 0
           breakStop ==
               Stop("break", InterpolateLocation(len, breakAt, total * miles),
                    day, Time(12, 0), TicksPerHour \div 2, breakAt, TRUE,
                    <<"30-minute break required after 8 hours driving">>)
           fuelStop ==
               Stop("fuel",
                    InterpolateLocation(len, distance_covered, total * miles),
                    day, Time(18, 0), TicksPerHour \div 2, distance_covered,
                    FALSE, <<"Fuel stop (1000+ miles)">>)
           restStop ==
               Stop("rest", InterpolateLocation(len, covAfter, total * miles),
                    day, Time(22, 0), Hours(10), covAfter, TRUE,
                    <<"Mandatory 10-hour rest before day", day + 2>>)
       IN  /\ eld_logs' = eld_logs \o GenerateDailyLogs(day, daily, day = 0)
           /\ IF miles = 0 /\ (needBreak \/ needFuel \/ needRest)
              THEN /\ pc' = "raised"
                   /\ UNCHANGED <<day, remaining_drive_hours,
                                  distance_covered, rest_stops>>
              ELSE /\ pc' = "loop"
                   /\ rest_stops' =
                         rest_stops
                         \o (IF needBreak THEN <<breakStop>> ELSE <<>>)
                         \o (IF needFuel THEN <<fuelStop>> ELSE <<>>)
                         \o (IF needRest THEN <<restStop>> ELSE <<>>)
                   /\ remaining_drive_hours' = remAfter
                   /\ distance_covered' = covAfter
                   /\ day' = day + 1
    /\ UNCHANGED <<trip, days_required, plan>>
    /\ UNCHANGED <<interpVars, routeVars, tripVars, logVars>>

\* lines 208-218: the loop is over, the plan is returned
PlanReturn ==
    /\ pc = "loop"
    /\ ~(day < days_required)
    /\ pc' = "returned"
    /\ plan' = [ rest_stops |-> rest_stops,
                 eld_logs   |-> eld_logs,
                 total_days |-> days_required,
                 compliance_summary |->
                   [ total_drive_hours   |-> trip.estimated_drive_time_hours,
                     total_on_duty_hours |->
                         trip.estimated_drive_time_hours + Hours(2),
                     days_required       |-> days_required,
                     cycle_hours_used    |->
                         trip.current_cycle_used_hours
                         + trip.estimated_drive_time_hours + Hours(2) ] ]
    /\ UNCHANGED <<trip, days_required, day, remaining_drive_hours,
                   distance_covered, rest_stops, eld_logs>>
    /\ UNCHANGED <<interpVars, routeVars, tripVars, logVars>>

----------------------------------------------------------------------------
(* ELDComplianceService._interpolate_location called on its own *)

MaxPolyLen == 4

ProgressDen == 8

\* progress from -2/ProgressDen to 2, in steps of 1/ProgressDen
ProgressValues == (-2) .. (2 * ProgressDen)

InitInterpVars ==
    /\ ip_len \in 0 .. MaxPolyLen
    /\ ip_progress = 0
    /\ ip_result = None
    /\ ip_prev = None

\* one call of _interpolate_location on the polyline, lines 285-309
Interpolate ==
    /\ \E p \in ProgressValues :
          /\ ip_progress' = p
          /\ ip_result' = InterpolateLocation(ip_len, p, ProgressDen)
    /\ ip_prev' = IF ip_result = None THEN None
                  ELSE [progress |-> ip_progress, result |-> ip_result]
    /\ UNCHANGED ip_len
    /\ UNCHANGED <<planVars, routeVars, tripVars, logVars>>

----------------------------------------------------------------------------
(* RouteCalculatorService *)

\* A stored location (a JSONField, any JSON): a dict with 'lat' and 'lng',
\* or one without those keys.  The well-formed ones lie on one meridian.
Location(ok, lat) == [well_formed |-> ok, lat |-> lat, lng |-> 7]

LatValues == {0, 1, 3, 95}

LocationValues ==
    { Location(TRUE, l) : l \in LatValues } \cup { Location(FALSE, 0) }

\* geopy's geodesic(a, b).miles along a meridian
MilesPerDegree == 69

Abs(x) == IF x < 0 THEN -x ELSE x

\* geodesic() raises ValueError for a latitude outside [-90, 90]
GeodesicRaises(a, b) == Abs(a.lat) > 90 \/ Abs(b.lat) > 90

GeodesicMiles(a, b) == MilesPerDegree * Abs(a.lat - b.lat)

\* a step of a provider segment; 'instruction' may be missing
Step(has, text, distance) ==
    [has_instruction |-> has, instruction |-> text, distance |-> distance]

\* a segment (one per leg) of the provider's properties['segments'];
\* has_steps = FALSE is a segment without the 'steps' key
Leg(distance, duration, has_steps, steps) ==
    [distance |-> distance, duration |-> duration,
     has_steps |-> has_steps, steps |-> steps]

LegValues ==
    { Leg(100, 2, TRUE, <<Step(TRUE, "Head north", 1609)>>),
      Leg(250, 5, TRUE, <<Step(TRUE, "Turn left", 3000),
                          Step(FALSE, "", 0)>>),
      Leg(40, 1, FALSE, <<>>) }

MaxLegs == 2

RECURSIVE SeqsUpTo(_, _)
SeqsUpTo(S, n) ==
    IF n = 0 THEN { <<>> }
    ELSE SeqsUpTo(S, n - 1)
         \cup { Append(q, x) : q \in { r \in SeqsUpTo(S, n - 1) : Len(r) = n - 1 },
                               x \in S }

\* the provider's geometry, [lng, lat] pairs
ProviderGeometry == << <<7, 0>>, <<7, 1>>, <<8, 2>>, <<7, 3>> >>

Provider(kind, segments) == [kind |-> kind, segments |-> segments]

\* what directions() does: raise (network failure, API error), return an
\* empty response, return text json.loads rejects, return JSON without
\* 'features', or return a route with its segments
ProviderOutcomes ==
    { Provider(k, <<>>) : k \in {"raises", "empty", "not_json", "no_features"} }
    \cup { Provider("json", q) : q \in SeqsUpTo(LegValues, MaxLegs) }

\* f"{x:.1f}" of a distance of d * 0.000621371, in tenths
MilesTenths(d) == (d * 621371 + 50000000) \div 100000000

RECURSIVE ParseInstructions(_)
\* _parse_instructions, lines 97-104
ParseInstructions(steps) ==
    IF steps = <<>> THEN <<>>
    ELSE (IF Head(steps).has_instruction
          THEN << [text |-> Head(steps).instruction,
                   miles_tenths |-> MilesTenths(Head(steps).distance)] >>
          ELSE <<>>)
         \o ParseInstructions(Tail(steps))

\* lines 39-55 run to the return: the response is JSON with a route whose
\* first segment has distance, duration and steps
PrimarySucceeds(p) ==
    /\ p.kind = "json"
    /\ Len(p.segments) >= 1
    /\ p.segments[1].has_steps

\* lines 48-55
PrimaryRoute(p) ==
    [ coordinates    |-> [ i \in DOMAIN ProviderGeometry |->
                             << ProviderGeometry[i][2], ProviderGeometry[i][1] >> ],
      distance_miles |-> p.segments[1].distance,
      duration_hours |-> [num |-> p.segments[1].duration, den |-> 1],
      instructions   |-> ParseInstructions(p.segments[1].steps) ]

\* _calculate_fallback_route, lines 61-95
FallbackRoute(current, pickup, dropoff) ==
    LET current_to_pickup == GeodesicMiles(current, pickup)
        pickup_to_dropoff == GeodesicMiles(pickup, dropoff)
        total_distance    == current_to_pickup + pickup_to_dropoff
    IN  [ coordinates    |-> << <<current.lat, current.lng>>,
                                <<pickup.lat, pickup.lng>>,
                                <<dropoff.lat, dropoff.lng>> >>,
          distance_miles |-> total_distance,
          duration_hours |-> [num |-> total_distance, den |-> 55],
          instructions   |->
            << [text |-> "Drive to pickup location",
                miles_tenths |-> current_to_pickup * 10],
               [text |-> "Drive to dropoff location",
                miles_tenths |-> pickup_to_dropoff * 10] >> ]

Raised(error) == [error |-> error]

InitRouteVars ==
    /\ rt_pc = "start"
    /\ rt_in \in [ client_ok : BOOLEAN,
                   current   : LocationValues,
                   pickup    : LocationValues,
                   dropoff   : LocationValues,
                   provider  : ProviderOutcomes ]
    /\ rt_result = None

\* calculate_route, lines 31-59: the client and the coordinate tuples are
\* built before the try; the except clause covers the provider call and
\* the reading of its response; the fallback runs outside it
CalculateRoute ==
    /\ rt_pc = "start"
    /\ LET current == rt_in.current
           pickup  == rt_in.pickup
           dropoff == rt_in.dropoff
       IN  IF ~rt_in.client_ok
           THEN rt_pc' = "raised" /\ rt_result' = Raised("ValueError")
           ELSE IF ~(current.well_formed /\ pickup.well_formed
                     /\ dropoff.well_formed)
           THEN rt_pc' = "raised" /\ rt_result' = Raised("KeyError")
           ELSE IF PrimarySucceeds(rt_in.provider)
           THEN rt_pc' = "returned" /\ rt_result' = PrimaryRoute(rt_in.provider)
           ELSE IF GeodesicRaises(current, pickup)
                   \/ GeodesicRaises(pickup, dropoff)
           THEN rt_pc' = "raised" /\ rt_result' = Raised("ValueError")
           ELSE /\ rt_pc' = "returned"
                /\ rt_result' = FallbackRoute(current, pickup, dropoff)
    /\ UNCHANGED rt_in
    /\ UNCHANGED <<planVars, interpVars, tripVars, logVars>>

----------------------------------------------------------------------------
(* TripViewSet: the status requests on one trip *)

\* a DateTimeField / TimeField that is None
NoTime == -1

MaxNow == 7

HTTP_200_OK == 200

HTTP_403_FORBIDDEN == 403

Response(request, code) == [request |-> request, code |-> code]

InitTripVars ==
    /\ status = "planned"
    /\ trip_start_time = NoTime
    /\ trip_end_time = NoTime
    /\ now = 1
    /\ response = Response("none", 0)
    /\ status_seen = {"planned"}

\* the guards of end_trip (line 91) and cancel_trip (line 102)
EndAllowed(s) == s # "cancelled"

\* variant: cancel_trip without its guard
CancelAllowedAlways(s) == TRUE

CancelAllowed(s) == s # "completed"

\* lines 79-86
start_trip ==
    /\ now < MaxNow
    /\ status' = "active"
    /\ trip_start_time' = now
    /\ response' = Response("start_trip", HTTP_200_OK)
    /\ now' = now + 1
    /\ status_seen' = status_seen \cup {status'}
    /\ UNCHANGED trip_end_time
    /\ UNCHANGED <<planVars, interpVars, routeVars, logVars>>

\* lines 88-97
end_trip ==
    /\ now < MaxNow
    /\ IF EndAllowed(status)
       THEN /\ status' = "completed"
            /\ trip_end_time' = now
            /\ response' = Response("end_trip", HTTP_200_OK)
       ELSE /\ response' = Response("end_trip", HTTP_403_FORBIDDEN)
            /\ UNCHANGED <<status, trip_end_time>>
    /\ now' = now + 1
    /\ status_seen' = status_seen \cup {status'}
    /\ UNCHANGED trip_start_time
    /\ UNCHANGED <<planVars, interpVars, routeVars, logVars>>

\* lines 99-108
cancel_trip ==
    /\ now < MaxNow
    /\ IF CancelAllowed(status)
       THEN /\ status' = "cancelled"
            /\ trip_end_time' = now
            /\ response' = Response("cancel_trip", HTTP_200_OK)
       ELSE /\ response' = Response("cancel_trip", HTTP_403_FORBIDDEN)
            /\ UNCHANGED <<status, trip_end_time>>
    /\ now' = now + 1
    /\ status_seen' = status_seen \cup {status'}
    /\ UNCHANGED trip_start_time
    /\ UNCHANGED <<planVars, interpVars, routeVars, logVars>>

----------------------------------------------------------------------------
(* ELDLog.clean and ELDLog.save *)

MaxLogs == 2

Drivers == {1, 2}

Dates == {0, 1}

DutyStatuses == {"driving", "off_duty"}

\* duration_hours offered to save: -1, 0, 5 and 6 hours
DurationValues == {-Hours(1), 0, Hours(5), Hours(6)}

\* time(23, 59, 59), the day boundary
EndOfDay == Hours(24)

NewPk == 0

RECURSIVE SumOver(_)
\* Sum('duration_hours') over a set of rows
SumOver(rows) ==
    IF rows = {} THEN 0
    ELSE LET r == CHOOSE x \in rows : TRUE
         IN  r.duration_hours + SumOver(rows \ {r})

\* variant: the .exclude(pk=self.pk) left out
DailyDrivingCountingSelf(st, inst) ==
    SumOver({ r \in st : /\ r.driver = inst.driver
                         /\ r.log_date = inst.log_date
                         /\ r.duty_status = "driving" })

\* lines 94-100: the Driving hours of the same driver and date, the row
\* being saved excluded
DailyDriving(st, inst) ==
    SumOver({ r \in st : /\ r.driver = inst.driver
                         /\ r.log_date = inst.log_date
                         /\ r.duty_status = "driving"
                         /\ r.pk # inst.pk })

\* clean, lines 87-103: TRUE when it raises ValidationError
CleanRaises(st, inst) ==
    \/ inst.duration_hours <= 0
    \/ /\ inst.duty_status = "driving"
       /\ DailyDriving(st, inst) + inst.duration_hours > Hours(11)

\* lines 117-124: end_time derived from start_time + duration_hours
WithEndTime(inst) ==
    IF inst.end_time = NoTime /\ inst.duration_hours # 0
    THEN LET e == inst.start_time + inst.duration_hours
         IN  [inst EXCEPT !.end_time =
                 IF e < 0 \/ e >= Hours(24) THEN EndOfDay ELSE e]
    ELSE inst

\* save, lines 116-127: the outcome of saving inst into the table st
SaveOutcome(st, npk, inst) ==
    LET filled == WithEndTime(inst)
    IN  IF CleanRaises(st, filled)
        THEN [error |-> "ValidationError", store |-> st, next_pk |-> npk]
        ELSE IF inst.pk = NewPk
        THEN [error |-> "none",
              store |-> st \cup { [filled EXCEPT !.pk = npk] },
              next_pk |-> npk + 1]
        ELSE [error |-> "none",
              store |-> { r \in st : r.pk # inst.pk } \cup { filled },
              next_pk |-> npk]

\* the instances a caller may save: a new one (pk None) while the table has
\* room, or one that replaces an existing row; end_time is left unset
Instances(st, npk) ==
    { [ pk |-> k, driver |-> drv, log_date |-> d, duty_status |-> ds,
        start_time |-> Time(14, 0), end_time |-> NoTime,
        duration_hours |-> dur ] :
        k \in { r.pk : r \in st } \cup (IF npk <= MaxLogs THEN {NewPk} ELSE {}),
        drv \in Drivers, d \in Dates, ds \in DutyStatuses,
        dur \in DurationValues }

InitLogVars ==
    /\ store = {}
    /\ next_pk = 1
    /\ save_result = [replace |-> FALSE, error |-> "none"]

\* one call of ELDLog.save
SaveLog ==
    /\ \E inst \in Instances(store, next_pk) :
          LET o == SaveOutcome(store, next_pk, inst)
          IN  /\ store' = o.store
              /\ next_pk' = o.next_pk
              /\ save_result' = [replace |-> inst.pk # NewPk, error |-> o.error]
    /\ UNCHANGED <<planVars, interpVars, routeVars, tripVars>>

----------------------------------------------------------------------------
(* Specifications: one per component, the others held at rest *)

RestPlanVars ==
    /\ pc = "returned"
    /\ trip = None
    /\ days_required = 0
    /\ day = 0
    /\ remaining_drive_hours = 0
    /\ distance_covered = 0
    /\ rest_stops = <<>>
    /\ eld_logs = <<>>
    /\ plan = [ rest_stops |-> <<>>, eld_logs |-> <<>> ]

RestInterpVars ==
    /\ ip_len = 0
    /\ ip_progress = 0
    /\ ip_result = None
    /\ ip_prev = None

RestRouteVars ==
    /\ rt_pc = "rest"
    /\ rt_in = None
    /\ rt_result = None

RestTripVars ==
    /\ status = "planned"
    /\ trip_start_time = NoTime
    /\ trip_end_time = NoTime
    /\ now = MaxNow
    /\ response = Response("none", 0)
    /\ status_seen = {"planned"}

RestLogVars ==
    /\ store = {}
    /\ next_pk = 1
    /\ save_result = [replace |-> FALSE, error |-> "none"]

InitPlan ==
    InitPlanVars /\ RestInterpVars /\ RestRouteVars /\ RestTripVars /\ RestLogVars

NextPlan == PlanBegin \/ PlanDay \/ PlanReturn

SpecPlan == InitPlan /\ [][NextPlan]_vars

InitInterp ==
    RestPlanVars /\ InitInterpVars /\ RestRouteVars /\ RestTripVars /\ RestLogVars

NextInterp == Interpolate

SpecInterp == InitInterp /\ [][NextInterp]_vars

InitRoute ==
    RestPlanVars /\ RestInterpVars /\ InitRouteVars /\ RestTripVars /\ RestLogVars

NextRoute == CalculateRoute

SpecRoute == InitRoute /\ [][NextRoute]_vars

InitTrip ==
    RestPlanVars /\ RestInterpVars /\ RestRouteVars /\ InitTripVars /\ RestLogVars

NextTrip == start_trip \/ end_trip \/ cancel_trip

SpecTrip == InitTrip /\ [][NextTrip]_vars

InitLog ==
    RestPlanVars /\ RestInterpVars /\ RestRouteVars /\ RestTripVars /\ InitLogVars

NextLog == SaveLog

SpecLog == InitLog /\ [][NextLog]_vars

Init == InitPlan

Next == NextPlan

Spec == SpecPlan

----------------------------------------------------------------------------
(* Properties of generate_compliance_plan *)

IsDriving(e) == e.duty_status = "driving"

IsOnDuty(e) == e.duty_status \in {"driving", "on_duty"}

\* the hours of the Driving segments of a log sequence
DrivingHours(logs) == SumDuration(SelectSeq(logs, IsDriving))

\* the Driving hours, and the Driving + OnDutyNotDriving hours, of one date
DayDriving(logs, d) ==
    SumDuration(SelectSeq(logs, LAMBDA e : e.log_date = d /\ IsDriving(e)))

DayOnDuty(logs, d) ==
    SumDuration(SelectSeq(logs, LAMBDA e : e.log_date = d /\ IsOnDuty(e)))

LogDates(logs) == { logs[i].log_date : i \in DOMAIN logs }

\* C1: in every returned plan with total_drive_hours > 0 (whatever
\* cycle_used_hours is) the Driving segments of eld_logs sum to
\* total_drive_hours.
C1_DrivingSumsToTotal ==
    (pc = "returned" /\ trip.estimated_drive_time_hours > 0)
        => DrivingHours(plan.eld_logs) = trip.estimated_drive_time_hours

\* C2: on every date of the generated logs the Driving segments sum to at
\* most 11 hours and the Driving plus OnDutyNotDriving segments to at most
\* 14 hours.
C2_DailyCaps ==
    \A d \in LogDates(eld_logs) :
        /\ DayDriving(eld_logs, d) <= Hours(11)
        /\ DayOnDuty(eld_logs, d) <= Hours(14)

\* a returned plan with a first day of 1h on duty + 11h driving and a later
\* day of 11h driving
C2_Witness ==
    /\ pc = "returned"
    /\ DayDriving(plan.eld_logs, 0) = Hours(11)
    /\ DayOnDuty(plan.eld_logs, 0) = Hours(12)
    /\ \E d \in LogDates(plan.eld_logs) :
          d > 0 /\ DayDriving(plan.eld_logs, d) = Hours(11)

\* C3: for total_drive_hours > 0 and 0 <= cycle_used_hours < 70 the day
\* count is the ceiling of total_drive_hours over the first day's allowance
\* min(11, 70 - cycle_used_hours) (the least n with n * allowance >= total),
\* the loop runs that many iterations and the returned plan has segments
\* for exactly the dates start .. start + total_days - 1.
C3_DaysRequired ==
    LET total == trip.estimated_drive_time_hours
        cycle == trip.current_cycle_used_hours
        allow == IF Hours(11) <= Hours(70) - cycle
                 THEN Hours(11) ELSE Hours(70) - cycle
    IN  (total > 0 /\ 0 <= cycle /\ cycle < Hours(70))
        => /\ pc \in {"loop", "returned"}
              => /\ (days_required - 1) * allow < total
                 /\ total <= days_required * allow
                 /\ day <= days_required
           /\ pc = "returned"
              => /\ plan.total_days = days_required
                 /\ plan.compliance_summary.days_required = days_required
                 /\ day = plan.total_days
                 /\ LogDates(plan.eld_logs) = 0 .. (plan.total_days - 1)

\* scenario B: cycle_used = 65, total_drive_hours = 20 gives 4 days
C3_Witness ==
    /\ pc = "returned"
    /\ trip.current_cycle_used_hours = Hours(65)
    /\ trip.estimated_drive_time_hours = Hours(20)
    /\ plan.total_days = 4
    /\ LogDates(plan.eld_logs) = 0 .. 3

\* C4: every segment of a returned plan has duration_hours > 0 (the rule
\* ELDLog.clean applies when trip creation persists the plan).
C4_SegmentsPositive ==
    pc = "returned"
        => \A i \in DOMAIN plan.eld_logs : plan.eld_logs[i].duration_hours > 0

\* C5: every returned plan has total_days >= 1 and days_required >= 1.
C5_AtLeastOneDay ==
    pc = "returned"
        => /\ plan.total_days >= 1
           /\ plan.compliance_summary.days_required >= 1

\* C10: the rest_stops of every returned plan are in ascending order of
\* distance_from_start_miles.
C10_StopsAscending ==
    pc = "returned"
        => \A i, j \in DOMAIN plan.rest_stops :
              i < j => plan.rest_stops[i].distance_from_start_miles
                       <= plan.rest_stops[j].distance_from_start_miles

----------------------------------------------------------------------------
(* Properties of calculate_route *)

\* C6: calculate_route never raises, whatever the client construction, the
\* stored locations and the provider do, and on a provider failure what it
\* returns is the fallback result: the 3-point polyline, distance = leg1 +
\* leg2, duration = distance / 55.
C6_RouteNeverFails ==
    /\ rt_pc # "raised"
    /\ (rt_pc = "returned" /\ rt_in.provider.kind # "json")
          => /\ Len(rt_result.coordinates) = 3
             /\ rt_result.distance_miles =
                   MilesPerDegree * Abs(rt_in.current.lat - rt_in.pickup.lat)
                   + MilesPerDegree * Abs(rt_in.pickup.lat - rt_in.dropoff.lat)
             /\ rt_result.duration_hours =
                   [num |-> rt_result.distance_miles, den |-> 55]

----------------------------------------------------------------------------
(* Properties of _interpolate_location *)

\* C7: _interpolate_location is total: the empty polyline yields (0, 0)
\* labelled "Route location"; otherwise the point returned has an index in
\* [0, len - 1], which is 0 for progress <= 0, len - 1 for progress >= 1 and
\* floor(progress * (len - 1)) in between, and the index does not decrease
\* when progress increases.
C7_InterpolateTotal ==
    ip_result # None
        => LET len == ip_len
               p   == ip_progress
               i   == ip_result.index
           IN  /\ len = 0 => /\ ip_result.source = "origin"
                             /\ ip_result.address = <<"Route location">>
               /\ len > 0 => /\ ip_result.source = "point"
                             /\ i \in 0 .. (len - 1)
                             /\ p <= 0 => i = 0
                             /\ p >= ProgressDen => i = len - 1
                             /\ (0 < p /\ p < ProgressDen)
                                   => /\ i * ProgressDen <= p * (len - 1)
                                      /\ p * (len - 1) < (i + 1) * ProgressDen
               /\ (ip_prev # None /\ ip_prev.progress <= p)
                     => ip_prev.result.index <= i

\* two calls with progress strictly inside (0, 1), the later one further
\* along the polyline, at an interior point
C7_Witness ==
    /\ ip_result # None
    /\ ip_prev # None
    /\ ip_len >= 3
    /\ 0 < ip_prev.progress
    /\ ip_prev.progress < ip_progress
    /\ ip_progress < ProgressDen
    /\ ip_prev.result.index < ip_result.index
    /\ ip_result.index < ip_len - 1

----------------------------------------------------------------------------
(* Properties of the trip status requests *)

\* C8: cancel_trip on a completed trip answers 403 and leaves status and
\* trip_end_time as they were, and so does end_trip on a cancelled trip.
C8_IllegalTransitionRejected ==
    [][ /\ (status = "completed" /\ now' # now
               /\ response'.request = "cancel_trip")
           => /\ response'.code = 403
              /\ status' = "completed"
              /\ trip_end_time' = trip_end_time
        /\ (status = "cancelled" /\ now' # now
               /\ response'.request = "end_trip")
           => /\ response'.code = 403
              /\ status' = "cancelled"
              /\ trip_end_time' = trip_end_time ]_vars

\* a completed trip whose last request was a rejected cancel_trip, made
\* after the request that completed it
C8_Witness ==
    /\ status = "completed"
    /\ response = Response("cancel_trip", 403)
    /\ trip_end_time # NoTime
    /\ trip_end_time < now - 1

----------------------------------------------------------------------------
(* Properties of ELDLog.save *)

\* the two rules on a table: positive durations, at most 11 Driving hours
\* per driver and date
StoreValid(st) ==
    /\ \A r \in st : r.duration_hours > 0
    /\ \A drv \in Drivers, d \in Dates :
          SumOver({ r \in st : /\ r.driver = drv
                               /\ r.log_date = d
                               /\ r.duty_status = "driving" }) <= Hours(11)

\* C9: after any sequence of saves every stored entry has a positive
\* duration and every (driver, date) has at most 11 Driving hours; a save
\* raises ValidationError exactly when the table with the entry created or
\* replaced would break one of the two rules (so the replaced entry's own
\* previous duration does not count), and then the table is unchanged.
C9_SaveKeepsLimits ==
    /\ StoreValid(store)
    /\ \A inst \in Instances(store, next_pk) :
          LET o     == SaveOutcome(store, next_pk, inst)
              after == { r \in store : r.pk # inst.pk } \cup { inst }
          IN  /\ (o.error = "ValidationError") <=> ~StoreValid(after)
              /\ (o.error = "ValidationError") => o.store = store

\* the last save replaced a row and was accepted, a Driving row of the
\* table stands on a date whose Driving hours, its own included, are
\* exactly 11, and a further save would be rejected
C9_Witness ==
    /\ save_result = [replace |-> TRUE, error |-> "none"]
    /\ \E r \in store :
          /\ r.duty_status = "driving"
          /\ DailyDriving(store, r) > 0
          /\ DailyDriving(store, r) + r.duration_hours = Hours(11)
    /\ \E inst \in Instances(store, next_pk) :
          /\ inst.pk # NewPk
          /\ SaveOutcome(store, next_pk, inst).error = "ValidationError"

----------------------------------------------------------------------------
(* Properties of the stops and the day layout of generate_compliance_plan *)

\* the stops of one type scheduled on one date
StopsOn(stops, type, d) ==
    SelectSeq(stops, LAMBDA s : s.stop_type = type /\ s.scheduled_arrival.date = d)

\* the Driving hours of the dates before d
DrivenBefore(logs, d) ==
    SumDuration(SelectSeq(logs, LAMBDA e : e.log_date < d /\ IsDriving(e)))

\* C11: in every returned plan a Rest stop is emitted at the end of day d
\* (at the distance covered after that day, 22:00, 10 hours, mandatory) if
\* and only if d is not the last day of the plan, d < total_days - 1.
C11_RestIffNotLastDay ==
    pc = "returned"
        => \A d \in 0 .. (plan.total_days - 1) :
              LET rests == StopsOn(plan.rest_stops, "rest", d)
              IN  /\ Len(rests) = (IF d < plan.total_days - 1 THEN 1 ELSE 0)
                  /\ \A i \in DOMAIN rests :
                        /\ rests[i].distance_from_start_miles =
                              DrivenBefore(plan.eld_logs, d + 1)
                              * trip.total_distance_miles
                        /\ rests[i].scheduled_arrival.time = Time(22, 0)
                        /\ rests[i].duration_hours = Hours(10)
                        /\ rests[i].is_mandatory

\* the segments of one date, in the order the plan lists them
DaySegments(logs, d) == SelectSeq(logs, LAMBDA e : e.log_date = d)

\* C12: on every day of a returned plan: with daily_drive_hours <= 8 there
\* is one Driving segment and no Break stop; with daily_drive_hours > 8 the
\* day drives 8h, is off duty 0.5h and drives the rest, and has exactly one
\* mandatory Break stop, at distance_covered_before_day + (8 /
\* total_drive_hours) * total_distance_miles, inside [0, total_distance];
\* no Driving segment exceeds 8h, and the day's segments are in time
\* order, do not overlap and end before midnight.
C12_DayLayout ==
    pc = "returned"
        => \A d \in LogDates(plan.eld_logs) :
              LET segs   == DaySegments(plan.eld_logs, d)
                  drv    == SelectSeq(segs, IsDriving)
                  daily  == DayDriving(plan.eld_logs, d)
                  breaks == StopsOn(plan.rest_stops, "break", d)
                  total  == trip.estimated_drive_time_hours
                  miles  == trip.total_distance_miles
              IN  /\ daily <= Hours(8)
                        => /\ Len(drv) = 1
                           /\ drv[1].duration_hours = daily
                           /\ Len(breaks) = 0
                  /\ daily > Hours(8)
                        => /\ Len(segs) = 4
                           /\ IsDriving(segs[2])
                           /\ segs[2].duration_hours = Hours(8)
                           /\ segs[3].duty_status = "off_duty"
                           /\ 2 * segs[3].duration_hours = Hours(1)
                           /\ IsDriving(segs[4])
                           /\ segs[4].duration_hours = daily - Hours(8)
                           /\ Len(breaks) = 1
                           /\ breaks[1].is_mandatory
                           /\ breaks[1].distance_from_start_miles =
                                 (DrivenBefore(plan.eld_logs, d) + Hours(8)) * miles
                           /\ 0 <= breaks[1].distance_from_start_miles
                           /\ breaks[1].distance_from_start_miles <= total * miles
                  /\ \A i \in DOMAIN segs :
                        /\ IsDriving(segs[i]) => segs[i].duration_hours <= Hours(8)
                        /\ i < Len(segs)
                              => segs[i].start_time + segs[i].duration_hours
                                    <= segs[i + 1].start_time
                        /\ segs[i].start_time + segs[i].duration_hours < Hours(24)

\* a returned plan with a day of more than 8 driving hours, split around
\* its break and with its Break stop, and a later day of at most 8
C12_Witness ==
    /\ pc = "returned"
    /\ \E d, e \in LogDates(plan.eld_logs) :
          /\ d < e
          /\ DayDriving(plan.eld_logs, d) > Hours(8)
          /\ Len(DaySegments(plan.eld_logs, d)) = 4
          /\ Len(StopsOn(plan.rest_stops, "break", d)) = 1
          /\ DayDriving(plan.eld_logs, e) > 0
          /\ DayDriving(plan.eld_logs, e) <= Hours(8)
          /\ Len(StopsOn(plan.rest_stops, "break", e)) = 0

\* C13: for 0 <= cycle_used_hours <= 70 the first day of a returned plan
\* stays within the 70-hour cycle: cycle_used_hours plus the day-0 on-duty
\* time (the 1h pre-trip inspection and the day-0 Driving segments) is at
\* most 70.
C13_FirstDayWithinCycle ==
    (/\ pc = "returned"
     /\ 0 <= trip.current_cycle_used_hours
     /\ trip.current_cycle_used_hours <= Hours(70))
        => trip.current_cycle_used_hours + DayOnDuty(plan.eld_logs, 0)
              <= Hours(70)

----------------------------------------------------------------------------
(* Properties of the primary path of calculate_route *)

RECURSIVE LegsDistance(_)
\* the total distance of the legs
LegsDistance(legs) ==
    IF legs = <<>> THEN 0
    ELSE Head(legs).distance + LegsDistance(Tail(legs))

RECURSIVE LegsDuration(_)
\* the total duration of the legs
LegsDuration(legs) ==
    IF legs = <<>> THEN 0
    ELSE Head(legs).duration + LegsDuration(Tail(legs))

RECURSIVE AllInstructions(_)
\* the instructions of all the legs, in order
AllInstructions(legs) ==
    IF legs = <<>> THEN <<>>
    ELSE ParseInstructions(Head(legs).steps) \o AllInstructions(Tail(legs))

\* a response with one segment for each of the two legs, every field there
WellFormedTwoLegs(p) ==
    /\ p.kind = "json"
    /\ Len(p.segments) = 2
    /\ \A i \in DOMAIN p.segments : p.segments[i].has_steps

\* C14: when the provider answers with a well-formed response holding one
\* segment per leg, the returned distance_miles and duration_hours are the
\* totals over both legs and the instructions are those of both legs.
C14_PrimaryCoversBothLegs ==
    (rt_pc = "returned" /\ WellFormedTwoLegs(rt_in.provider))
        => /\ rt_result.distance_miles =
                 LegsDistance(rt_in.provider.segments)
           /\ rt_result.duration_hours =
                 [num |-> LegsDuration(rt_in.provider.segments), den |-> 1]
           /\ rt_result.instructions = AllInstructions(rt_in.provider.segments)

----------------------------------------------------------------------------
(* Properties of the trip status over a sequence of requests *)

\* C15: over any sequence of start_trip, end_trip and cancel_trip requests
\* a trip that has been completed is never cancelled afterwards, and a trip
\* that has been cancelled is never completed afterwards.
C15_CompletedCancelledExclusive ==
    /\ status = "cancelled" => "completed" \notin status_seen
    /\ status = "completed" => "cancelled" \notin status_seen

====
